---- MODULE Spec2Model ----
(***************************************************************************)
(* Epub2Summary: the chapter segmentation engine (src/epub_handler.py),    *)
(* the ordering and merge engine (src/ai_handler.py) and the worker run    *)
(* that drives them (src/main.py), as state machines.                      *)
(*                                                                         *)
(* Text is a sequence of tokens: "s" one space, "n" one newline, "x" an    *)
(* ordinary word, "C" the word `chapter' (a marker of the pattern grammar  *)
(* and of the structural test), "P" the word `prologue' (a marker of the   *)
(* structural test only), "#" the markdown heading marker, "t" one tab,    *)
(* and a digit.                                                            *)
(***************************************************************************)
EXTENDS Integers, Sequences, FiniteSets, TLC

VARIABLES
    book,          \* EpubHandler.book: the loaded document (items and toc)
    call,          \* the operation invoked on a handler, with its arguments
    ret,           \* what that operation returned
    fs,            \* the file system: path -> stored text, or Unreadable
    pc,            \* where the running operation stands
    chapters,      \* WorkerThread.run: the chapters of the run
    md_files,      \* WorkerThread.run: the chapter artifacts written
    summary_files, \* WorkerThread.run: the summary artifacts written
    file_index,    \* WorkerThread.run: the artifacts the summary loop has handled
    emitted,       \* the signals the worker emitted, in order
    retry,         \* AIHandler.generate_summary: the loop variable
    effects        \* AIHandler.generate_summary: its requests and sleeps, in order

summarizer == <<retry, effects>>
worker == <<chapters, md_files, summary_files, file_index, emitted, retry, effects>>
vars == <<book, call, ret, fs, pc, chapters, md_files, summary_files,
          file_index, emitted, retry, effects>>

\* No worker runs: the handlers are exercised directly.
NoWorker ==
    /\ chapters = <<>>
    /\ md_files = <<>>
    /\ summary_files = <<>>
    /\ file_index = 0
    /\ emitted = <<>>
    /\ retry = 0
    /\ effects = <<>>

\* ------------------------------------------------------------------ bounds

MaxTextLen == 6
MaxNodes == 3
MaxNodeDepth == 1
MaxBookItems == 2
MaxBookToc == 2
MaxTocItems == 1
MaxTocEntries == 4
MaxTocDepth == 3
MaxListLen == 5
MaxSelected == 3
MaxRetries == 3
MaxSummaryLen == 5

\* ------------------------------------------------------- strings of tokens

NoReturn == <<>>
NoBook == [items |-> <<>>, toc |-> <<>>]
NoFiles == <<>>

\* All sequences over S of length at most n.
SeqsUpTo(S, n) == UNION {[1..k -> S] : k \in 0..n}

RECURSIVE Split(_, _)
\* str.split(sep): the pieces between the separators; "" gives one empty piece.
Split(text, sep) ==
    IF \E k \in 1..Len(text) : text[k] = sep
    THEN LET k == CHOOSE j \in 1..Len(text) :
                      text[j] = sep /\ \A m \in 1..(j - 1) : text[m] # sep
         IN <<SubSeq(text, 1, k - 1)>> \o Split(SubSeq(text, k + 1, Len(text)), sep)
    ELSE <<text>>

RECURSIVE Join(_, _)
\* sep.join(parts)
Join(parts, sep) ==
    IF Len(parts) = 0 THEN <<>>
    ELSE IF Len(parts) = 1 THEN parts[1]
    ELSE parts[1] \o <<sep>> \o Join(Tail(parts), sep)

IsSpace(t) == t \in {"s", "n", "t"}

RECURSIVE Strip(_)
\* str.strip(): leading and trailing whitespace removed.
Strip(line) ==
    IF Len(line) = 0 THEN line
    ELSE IF IsSpace(line[1]) THEN Strip(Tail(line))
    ELSE IF IsSpace(line[Len(line)]) THEN Strip(SubSeq(line, 1, Len(line) - 1))
    ELSE line

RECURSIVE SplitLines(_)
\* str.splitlines(): as split on newline, without the empty piece after a
\* final newline; "" gives no line.
SplitLines(text) ==
    IF Len(text) = 0 THEN <<>>
    ELSE IF \E k \in 1..Len(text) : text[k] = "n"
    THEN LET k == CHOOSE j \in 1..Len(text) :
                      text[j] = "n" /\ \A m \in 1..(j - 1) : text[m] # "n"
         IN <<SubSeq(text, 1, k - 1)>> \o SplitLines(SubSeq(text, k + 1, Len(text)))
    ELSE <<text>>

RECURSIVE SplitDouble(_)
\* line.split("  "): the pieces between non-overlapping pairs of spaces, found
\* from the left.
SplitDouble(line) ==
    IF \E k \in 1..(Len(line) - 1) : line[k] = "s" /\ line[k + 1] = "s"
    THEN LET k == CHOOSE j \in 1..(Len(line) - 1) :
                      /\ line[j] = "s" /\ line[j + 1] = "s"
                      /\ \A m \in 1..(j - 1) : ~(line[m] = "s" /\ line[m + 1] = "s")
         IN <<SubSeq(line, 1, k - 1)>> \o SplitDouble(SubSeq(line, k + 2, Len(line)))
    ELSE <<line>>

RECURSIVE Flatten(_)
Flatten(seqs) == IF Len(seqs) = 0 THEN <<>> ELSE seqs[1] \o Flatten(Tail(seqs))

\* ---------------------------------------------------------- text normalizer

\* A plausible slip: the phrases are not trimmed.
normalize_text_untrimmed(text) ==
    LET raw == SplitLines(text)
        lines == [k \in 1..Len(raw) |-> Strip(raw[k])]
        phrases == Flatten([k \in 1..Len(lines) |-> SplitDouble(lines[k])])
    IN Join(SelectSeq(phrases, LAMBDA c : c # <<>>), "n")

\* lines = (line.strip() for line in text.splitlines())
\* chunks = (phrase.strip() for line in lines for phrase in line.split("  "))
\* text = '\n'.join(chunk for chunk in chunks if chunk)
normalize_text(text) ==
    LET raw == SplitLines(text)
        lines == [k \in 1..Len(raw) |-> Strip(raw[k])]
        phrases == Flatten([k \in 1..Len(lines) |-> SplitDouble(lines[k])])
        chunks == [k \in 1..Len(phrases) |-> Strip(phrases[k])]
    IN Join(SelectSeq(chunks, LAMBDA c : c # <<>>), "n")

\* -------------------------------------------------------- pattern detector

\* The marker alternatives of chapter_regex, each one token here.
RegexMarkers == {"C"}

\* re.match(self.chapter_regex, line, re.IGNORECASE): the marker stands at the
\* start of the line or after `.+[ ]+' (at least one character, then a space),
\* and is followed by the end of the line or by a space.
chapter_regex(line) ==
    \E k \in 1..Len(line) :
        /\ line[k] \in RegexMarkers
        /\ (k = 1 \/ (k >= 3 /\ line[k - 1] = "s"))
        /\ (k = Len(line) \/ line[k + 1] = "s")

\* The chapter record split_by_regex and split_by_xpath append.
Chapter(title, content) == [title |-> title, content |-> content]

\* The loop's locals: None is a value no title equals.
None == <<"None">>

RECURSIVE RegexLoop(_, _, _, _, _)
RegexLoop(lines, k, chs, current_chapter, current_content) ==
    IF k > Len(lines)
    THEN IF current_chapter # None /\ current_chapter # <<>>
         THEN Append(chs, Chapter(current_chapter, Join(current_content, "n")))
         ELSE chs
    ELSE IF chapter_regex(lines[k])
         THEN RegexLoop(lines, k + 1,
                        IF current_chapter # None /\ current_chapter # <<>>
                        THEN Append(chs, Chapter(current_chapter,
                                                 Join(current_content, "n")))
                        ELSE chs,
                        Strip(lines[k]), <<>>)
         ELSE RegexLoop(lines, k + 1, chs, current_chapter,
                        IF current_chapter # None /\ current_chapter # <<>>
                        THEN Append(current_content, lines[k])
                        ELSE current_content)

\* A plausible slip: the scan starts at the second line.
split_by_regex_skip_first(text) == RegexLoop(Split(text, "n"), 2, <<>>, None, <<>>)

split_by_regex(text) == RegexLoop(Split(text, "n"), 1, <<>>, None, <<>>)

\* ----------------------------------------------------- structural detector

\* A parsed fragment is the element tree below <body> in document order: each
\* node carries its depth, its tag ("h1" for h1/h2, "chapter" for an element
\* with class='chapter', "p" for any other), the text before its first child
\* and the text after its end tag (its tail).
Node(depth, tag, text, tail) ==
    [depth |-> depth, tag |-> tag, text |-> text, tail |-> tail]

\* The last node of the subtree rooted at node k.
SubtreeEnd(tree, k) ==
    CHOOSE e \in k..Len(tree) :
        /\ \A m \in (k + 1)..e : tree[m].depth > tree[k].depth
        /\ (e = Len(tree) \/ tree[e + 1].depth <= tree[k].depth)

\* The text of the nodes k..e of one subtree, with the tails of the nodes
\* that end inside it.
RECURSIVE SubtreeText(_, _, _)
SubtreeText(tree, k, e) ==
    IF k > e THEN <<>>
    ELSE LET ke == SubtreeEnd(tree, k)
         IN tree[k].text \o SubtreeText(tree, k + 1, ke)
            \o tree[k].tail \o SubtreeText(tree, ke + 1, e)

\* node.text_content(): the text of the node and of its descendants; the
\* node's own tail is not part of it.
text_content(tree, k) ==
    tree[k].text \o SubtreeText(tree, k + 1, SubtreeEnd(tree, k))

\* node.getnext(): the next sibling element, 0 for None.
getnext(tree, k) ==
    LET nx == SubtreeEnd(tree, k) + 1
    IN IF nx <= Len(tree) /\ tree[nx].depth = tree[k].depth THEN nx ELSE 0

\* re:test(., '\s*((chapter|book|section|part)\s+)|((prolog|prologue|epilogue)(\s+|$))', 'i')
re_test(str) ==
    \E k \in 1..Len(str) :
        \/ str[k] = "C" /\ k < Len(str) /\ IsSpace(str[k + 1])
        \/ str[k] = "P" /\ (k = Len(str) \/ IsSpace(str[k + 1]))

\* The XPath predicate of chapter_nodes and of is_next_chapter.
is_chapter_node(tree, k) ==
    \/ tree[k].tag = "h1" /\ re_test(text_content(tree, k))
    \/ tree[k].tag = "chapter"

\* The while loop over next_sibling: the text of every following sibling up
\* to the first one that is itself a chapter node.
RECURSIVE content_elements(_, _)
content_elements(tree, next_sibling) ==
    IF next_sibling = 0 THEN <<>>
    ELSE IF is_chapter_node(tree, next_sibling) THEN <<>>
    ELSE <<text_content(tree, next_sibling)>>
         \o content_elements(tree, getnext(tree, next_sibling))

RECURSIVE XpathLoop(_, _)
\* for i, chapter_node in enumerate(chapter_nodes)
XpathLoop(tree, k) ==
    IF k > Len(tree) THEN <<>>
    ELSE IF ~is_chapter_node(tree, k) THEN XpathLoop(tree, k + 1)
    ELSE LET title == Strip(text_content(tree, k))
             content == normalize_text(
                            Join(content_elements(tree, getnext(tree, k)), "n"))
         IN (IF title # <<>> /\ content # <<>>
             THEN <<Chapter(title, content)>> ELSE <<>>)
            \o XpathLoop(tree, k + 1)

split_by_xpath(html_content) == XpathLoop(html_content, 1)

\* ------------------------------------------------------- text of the book

\* A document item of the book: its name and its parsed markup.
Item(href, html) == [href |-> href, html |-> html]

\* soup.get_text() after every script and style element was decomposed: all
\* the text of the fragment in document order, tails included.
RECURSIVE get_text(_, _, _)
get_text(tree, k, e) ==
    IF k > e THEN <<>>
    ELSE LET ke == SubtreeEnd(tree, k)
         IN (IF tree[k].tag = "script" THEN <<>>
             ELSE tree[k].text \o get_text(tree, k + 1, ke))
            \o tree[k].tail \o get_text(tree, ke + 1, e)

extract_text_from_html(html_content) ==
    normalize_text(get_text(html_content, 1, Len(html_content)))

\* for item in self.book.get_items(): the texts that are not empty, joined.
extract_all_text(bk) ==
    LET texts == [k \in 1..Len(bk.items) |-> extract_text_from_html(bk.items[k].html)]
    IN Join(SelectSeq(texts, LAMBDA t : t # <<>>), "n")

\* ----------------------------------------------------- navigation detector

\* The table of contents is the tree of its entries in document order, each
\* with its depth, its title and its href (NoHref: the entry has no href).
NoHref == <<>>
ItemHref(k) == <<"item", k, "html">>
GoneHref == <<"gone", "html">>
TocEntry(depth, title, href) == [depth |-> depth, title |-> title, href |-> href]

\* self.book.get_item_with_href(href): the position of the item, 0 for None.
get_item_with_href(bk, href) ==
    IF \E k \in 1..Len(bk.items) : bk.items[k].href = href
    THEN CHOOSE k \in 1..Len(bk.items) :
             bk.items[k].href = href
             /\ \A m \in 1..(k - 1) : bk.items[m].href # href
    ELSE 0

\* The chapter record process_toc_item appends.
TocChapter(title, content, href, level) ==
    [title |-> title, content |-> content, href |-> href, level |-> level]

\* A plausible slip: `level >= 2' for `level > 2'.
too_deep_at_two(level) == level >= 2

\* if level > 2: return
too_deep(level) == level > 2

\* item.items: the entries directly below entry k, in order.
toc_items(toc, k) ==
    LET e == SubtreeEnd(toc, k)
        idx == [j \in 1..(e - k) |-> k + j]
    IN SelectSeq(idx, LAMBDA j : toc[j].depth = toc[k].depth + 1)

RECURSIVE process_toc_item(_, _, _)
RECURSIVE process_toc_items(_, _, _)
process_toc_item(bk, k, level) ==
    IF too_deep(level) THEN <<>>
    ELSE LET content_item == IF bk.toc[k].href = NoHref THEN 0
                             ELSE get_item_with_href(bk, bk.toc[k].href)
         IN (IF content_item # 0
             THEN <<TocChapter(bk.toc[k].title,
                               extract_text_from_html(bk.items[content_item].html),
                               bk.toc[k].href, level)>>
             ELSE <<>>)
            \o process_toc_items(bk, toc_items(bk.toc, k), level + 1)

\* for subitem in item.items: process_toc_item(subitem, level + 1)
process_toc_items(bk, subitems, level) ==
    IF Len(subitems) = 0 THEN <<>>
    ELSE process_toc_item(bk, subitems[1], level)
         \o process_toc_items(bk, Tail(subitems), level)

\* 'chapter_<i>.html'
ChapterHref(i) == <<"chapter", i, "html">>

\* A plausible slip: the pattern fallback without the include_all test.
get_toc_chapters_always_all(bk, include_all) ==
    LET idx == [j \in 1..Len(bk.toc) |-> j]
        top == SelectSeq(idx, LAMBDA j : bk.toc[j].depth = 0)
        chs == process_toc_items(bk, top, 0)
        regex_chapters == split_by_regex(extract_all_text(bk))
    IN IF chs = <<>>
       THEN [i \in 1..Len(regex_chapters) |->
                TocChapter(regex_chapters[i].title, regex_chapters[i].content,
                           ChapterHref(i - 1), 0)]
       ELSE chs

get_toc_chapters(bk, include_all) ==
    LET idx == [j \in 1..Len(bk.toc) |-> j]
        top == SelectSeq(idx, LAMBDA j : bk.toc[j].depth = 0)
        chs == process_toc_items(bk, top, 0)
        regex_chapters == split_by_regex(extract_all_text(bk))
    IN IF include_all /\ chs = <<>>
       THEN [i \in 1..Len(regex_chapters) |->
                TocChapter(regex_chapters[i].title, regex_chapters[i].content,
                           ChapterHref(i - 1), 0)]
       ELSE chs

\* ------------------------------------------------ segmentation orchestrator

\* _split_by_xpath: the structural chapters of every document item, in order.
RECURSIVE XpathOfItems(_, _)
XpathOfItems(bk, k) ==
    IF k > Len(bk.items) THEN <<>>
    ELSE split_by_xpath(bk.items[k].html) \o XpathOfItems(bk, k + 1)

\* The three helpers extend the list they are given.
_split_by_xpath(bk, chs) == chs \o XpathOfItems(bk, 1)
_split_by_regex(bk, chs) == chs \o split_by_regex(extract_all_text(bk))
_split_by_toc(bk, chs) == chs \o get_toc_chapters(bk, FALSE)

\* A plausible slip: the fallbacks run unconditionally.
split_into_chapters_merging(bk, detection_method) ==
    IF detection_method = "xpath" THEN _split_by_xpath(bk, <<>>)
    ELSE IF detection_method = "regex" THEN _split_by_regex(bk, <<>>)
    ELSE IF detection_method = "toc" THEN _split_by_toc(bk, <<>>)
    ELSE _split_by_toc(bk, _split_by_regex(bk, _split_by_xpath(bk, <<>>)))

\* A plausible slip: an explicit method falls back like the automatic mode.
split_into_chapters_fallback(bk, detection_method) ==
    LET c1 == IF detection_method = "regex" THEN _split_by_regex(bk, <<>>)
              ELSE IF detection_method = "toc" THEN _split_by_toc(bk, <<>>)
              ELSE _split_by_xpath(bk, <<>>)
        c2 == IF c1 = <<>> THEN _split_by_regex(bk, c1) ELSE c1
    IN IF c2 = <<>> THEN _split_by_toc(bk, c2) ELSE c2

split_into_chapters(bk, detection_method) ==
    IF detection_method = "xpath" THEN _split_by_xpath(bk, <<>>)
    ELSE IF detection_method = "regex" THEN _split_by_regex(bk, <<>>)
    ELSE IF detection_method = "toc" THEN _split_by_toc(bk, <<>>)
    ELSE LET c1 == _split_by_xpath(bk, <<>>)
             c2 == IF c1 = <<>> THEN _split_by_regex(bk, c1) ELSE c1
         IN IF c2 = <<>> THEN _split_by_toc(bk, c2) ELSE c2

\* for i, chapter in enumerate(chapters): the missing href and level are set.
add_attributes(chs) ==
    [i \in 1..Len(chs) |->
        [title |-> chs[i].title,
         content |-> chs[i].content,
         href |-> IF "href" \in DOMAIN chs[i]
                  THEN chs[i].href ELSE ChapterHref(i - 1),
         level |-> IF "level" \in DOMAIN chs[i]
                   THEN chs[i].level ELSE 0]]

\* A plausible slip: no fallback when the requested method finds nothing.
get_all_chapters_no_fallback(bk, detection_method) ==
    add_attributes(
        IF detection_method = "xpath" THEN XpathOfItems(bk, 1)
        ELSE IF detection_method = "regex" THEN split_by_regex(extract_all_text(bk))
        ELSE IF detection_method = "toc" THEN get_toc_chapters(bk, TRUE)
        ELSE <<>>)

get_all_chapters(bk, detection_method) ==
    LET c1 == IF detection_method = "xpath" THEN XpathOfItems(bk, 1)
              ELSE IF detection_method = "regex"
                   THEN split_by_regex(extract_all_text(bk))
              ELSE IF detection_method = "toc" THEN get_toc_chapters(bk, TRUE)
              ELSE <<>>
        c2 == IF c1 = <<>> THEN get_toc_chapters(bk, TRUE) ELSE c1
        c3 == IF c1 = <<>> /\ c2 = <<>>
              THEN split_by_regex(extract_all_text(bk)) ELSE c2
    IN add_attributes(c3)

\* --------------------------------------------------- ordering and merging

\* A path is the token sequence of its base name; every artifact of a run lies
\* in the one output directory.
SummarySuffix == "_summary.md"
SummaryPath(stem) == stem \o <<SummarySuffix>>

\* f.write(f"# {stem} 总结\n\n"); f.write(summary)
summary_text(stem, summary) ==
    <<"#", "s">> \o stem \o <<"s", "x", "n", "n">> \o summary

\* What open() meets instead of a text when the file cannot be read.
Unreadable == <<"unreadable">>
Readable(files, path) == path \in DOMAIN files /\ files[path] # Unreadable

Digits == <<"0", "1", "2", "3", "4", "5", "6", "7", "8", "9">>
IsDigit(t) == \E v \in 1..Len(Digits) : Digits[v] = t
DigitValue(t) == (CHOOSE v \in 1..Len(Digits) : Digits[v] = t) - 1

\* re.search(r'\d+', name)
has_numeral(name) == \E k \in 1..Len(name) : IsDigit(name[k])

RECURSIVE IntOf(_, _, _)
\* int(match.group(1)): the value of the run of digits that starts at k.
IntOf(name, k, acc) ==
    IF k > Len(name) \/ ~IsDigit(name[k]) THEN acc
    ELSE IntOf(name, k + 1, 10 * acc + DigitValue(name[k]))

\* A plausible slip: the last digit of the name for the first numeral.
sort_key_last_digit(file_path) ==
    IF has_numeral(file_path)
    THEN DigitValue(file_path[CHOOSE k \in 1..Len(file_path) :
                         IsDigit(file_path[k])
                         /\ \A m \in (k + 1)..Len(file_path) : ~IsDigit(file_path[m])])
    ELSE 0

sort_key(file_path) ==
    IF has_numeral(file_path)
    THEN IntOf(file_path,
               CHOOSE k \in 1..Len(file_path) :
                   IsDigit(file_path[k]) /\ \A m \in 1..(k - 1) : ~IsDigit(file_path[m]),
               0)
    ELSE 0

RECURSIVE InsertByKey_dropping_ties(_, _)
\* A plausible slip: an element whose key is already there is dropped.
InsertByKey_dropping_ties(done, f) ==
    IF Len(done) = 0 THEN <<f>>
    ELSE IF sort_key(done[Len(done)]) = sort_key(f) THEN done
    ELSE IF sort_key(done[Len(done)]) < sort_key(f) THEN Append(done, f)
    ELSE Append(InsertByKey_dropping_ties(SubSeq(done, 1, Len(done) - 1), f),
                done[Len(done)])

RECURSIVE InsertByKey(_, _)
\* The place of f in a list already in order: after every element whose key
\* is not greater.
InsertByKey(done, f) ==
    IF Len(done) = 0 THEN <<f>>
    ELSE IF sort_key(done[Len(done)]) <= sort_key(f) THEN Append(done, f)
    ELSE Append(InsertByKey(SubSeq(done, 1, Len(done) - 1), f), done[Len(done)])

RECURSIVE sorted(_)
\* sorted(summary_files, key=sort_key): a new list, stable.
sorted(files) ==
    IF Len(files) = 0 THEN <<>>
    ELSE InsertByKey(sorted(SubSeq(files, 1, Len(files) - 1)), files[Len(files)])

\* os.path.basename(f).replace('_summary.md', '').replace('_', ' ')
chapter_title(path) ==
    LET stem == SelectSeq(path, LAMBDA t : t # SummarySuffix)
    IN [k \in 1..Len(stem) |-> IF stem[k] = "_" THEN "s" ELSE stem[k]]

\* The lines of the stored text that are no heading line, joined and trimmed.
section_body(content) ==
    LET lines == Split(content, "n")
        content_lines ==
            SelectSeq(lines, LAMBDA l : ~(Strip(l) # <<>> /\ Strip(l)[1] = "#"))
    IN Strip(Join(content_lines, "n"))

\* The strings merge_summaries writes, each kept with the values formatted
\* into it.
WriteTitle == <<"# title">>
WriteContents == <<"## contents">>
WriteBlank == <<"blank">>
WriteEntry(n, title) == <<"entry", n, title>>
WriteHeading(n, title) == <<"## heading", n, title>>
WriteBody(text) == <<"body", text>>
WriteError == <<"read error">>

\* for i, summary_file in enumerate(sorted_files): the index entries.
index_entries(sorted_files) ==
    [i \in 1..Len(sorted_files) |-> WriteEntry(i, chapter_title(sorted_files[i]))]

\* A plausible slip: an unreadable artifact loses its section.
section_writes_skip_unreadable(files, sorted_files, i) ==
    IF Readable(files, sorted_files[i])
    THEN << WriteHeading(i, chapter_title(sorted_files[i])),
            WriteBody(section_body(files[sorted_files[i]])) >>
    ELSE <<>>

\* The try block of one artifact, and its except branch.
section_writes(files, sorted_files, i) ==
    IF Readable(files, sorted_files[i])
    THEN << WriteHeading(i, chapter_title(sorted_files[i])),
            WriteBody(section_body(files[sorted_files[i]])) >>
    ELSE << WriteHeading(i, sorted_files[i]), WriteError >>

\* What merge_summaries writes to output_path.
merged_file(files, summaries) ==
    LET has_numbering == \E k \in 1..Len(summaries) : has_numeral(summaries[k])
        sorted_files == IF has_numbering THEN sorted(summaries) ELSE summaries
    IN <<WriteTitle, WriteContents>>
       \o index_entries(sorted_files)
       \o <<WriteBlank>>
       \o Flatten([i \in 1..Len(sorted_files) |->
                       section_writes(files, sorted_files, i)])

\* -------------------------------------------------------------- the worker

\* update_log.emit(...) and task_complete.emit(ok, ...)
Log(kind, about) == <<"update_log", kind, about>>
TaskComplete(ok) == <<"task_complete", ok>>

\* detection_methods.get(self.detection_method, 'xpath')
method_name(detection_method) ==
    IF detection_method = 1 THEN "xpath"
    ELSE IF detection_method = 2 THEN "regex"
    ELSE IF detection_method = 3 THEN "toc"
    ELSE "xpath"

\* re.sub(r'[<>:"/\\|?*]', '_', chapter['title'])
safe_title(title) ==
    [k \in 1..Len(title) |-> IF title[k] \in {"/", ":", "?", "*"} THEN "_" ELSE title[k]]

\* os.path.join(self.output_dir, f"{safe_title}.md")
md_path(title) == safe_title(title) \o <<".md">>

\* os.path.splitext(base_name)[0]: a name that is only `.md' has no extension.
splitext(base_name) ==
    IF Len(base_name) > 1 /\ base_name[Len(base_name)] = ".md"
    THEN SubSeq(base_name, 1, Len(base_name) - 1)
    ELSE base_name

\* f.write(f"# {chapter['title']}\n\n"); f.write(chapter['content'])
md_text(chapter) == <<"#", "s">> \o chapter.title \o <<"n", "n">> \o chapter.content

\* open(path, 'w') and the writes: the file holds the text.
WriteFile(files, path, text) ==
    [q \in DOMAIN files \cup {path} |-> IF q = path THEN text ELSE files[q]]

\* A plausible slip: `break' for `continue' in the except branch.
after_file_break(k, total, ok) ==
    IF ok /\ k < total THEN "summarize" ELSE "merge"

\* Where the summary loop goes after the k-th of total artifacts: both the
\* end of the try block and `except ...: continue' go on with the next one.
after_file(k, total, ok) ==
    IF k < total THEN "summarize" ELSE "merge"

\* ---------------------------------------------- the pattern detector alone

RegexTokens == {"s", "n", "x", "C"}

InitRegex ==
    /\ book = NoBook
    /\ fs = NoFiles
    /\ call \in [op : {"split_by_regex"}, text : SeqsUpTo(RegexTokens, MaxTextLen)]
    /\ ret = NoReturn
    /\ pc = "called"
    /\ NoWorker

SplitByRegex ==
    /\ call.op = "split_by_regex"
    /\ pc = "called"
    /\ pc' = "returned"
    /\ ret' = split_by_regex(call.text)
    /\ UNCHANGED <<book, call, fs>>
    /\ UNCHANGED worker

NextRegex == SplitByRegex

SpecRegex == InitRegex /\ [][NextRegex]_vars

\* The lines of the scanned text and the positions of its heading lines.
RegexLines == Split(call.text, "n")
HeadingLines == {k \in 1..Len(RegexLines) : chapter_regex(RegexLines[k])}
\* The j-th heading line, and the line that ends its chapter.
NthHeading(j) ==
    CHOOSE k \in HeadingLines : Cardinality({m \in HeadingLines : m <= k}) = j
ChapterEnd(j) ==
    IF j < Cardinality(HeadingLines) THEN NthHeading(j + 1) ELSE Len(RegexLines) + 1

\* C3: split_by_regex returns one chapter per line matching the grammar, in
\* line order, titled with that line trimmed, holding the lines strictly
\* between that heading and the next heading (or the end) joined by newline;
\* lines before the first heading are in no chapter, and with no heading line
\* the result is the empty list.
C3_PatternDetector ==
    pc = "returned" =>
        /\ Len(ret) = Cardinality(HeadingLines)
        /\ \A j \in 1..Len(ret) :
              /\ ret[j].title = Strip(RegexLines[NthHeading(j)])
              /\ ret[j].content =
                    Join(SubSeq(RegexLines, NthHeading(j) + 1, ChapterEnd(j) - 1), "n")

\* A text with front matter, a heading directly followed by a heading, and a
\* heading line that trimming changes.
C3_Witness ==
    /\ pc = "returned"
    /\ Len(ret) >= 2
    /\ ret[1].content = <<>>
    /\ 1 \notin HeadingLines
    /\ \E k \in HeadingLines : Strip(RegexLines[k]) # RegexLines[k]

\* ------------------------------------------- the structural detector alone

XpathTags == {"h1", "p", "chapter"}
XpathTexts == {<<>>, <<"x">>, <<"C", "s", "x">>, <<"x", "s", "s", "x">>}

\* The depths of n nodes in document order: the first is a child of <body>,
\* and a node lies at most one level below the node before it.
DepthSeqs(n, maxDepth) ==
    {d \in [1..n -> 0..maxDepth] :
        /\ (n > 0 => d[1] = 0)
        /\ \A k \in 2..n : d[k] <= d[k - 1] + 1}

\* Every tree of n nodes; elements are separated by a newline, as in a
\* serialised XHTML fragment.
Trees(n, maxDepth) ==
    {[k \in 1..n |-> Node(d[k], v[k].tag, v[k].text, <<"n">>)] :
        d \in DepthSeqs(n, maxDepth),
        v \in [1..n -> [tag : XpathTags, text : XpathTexts]]}

InitXpath ==
    /\ book = NoBook
    /\ fs = NoFiles
    /\ \E n \in 0..MaxNodes :
          call \in [op : {"split_by_xpath"}, html_content : Trees(n, MaxNodeDepth)]
    /\ ret = NoReturn
    /\ pc = "called"
    /\ NoWorker

SplitByXpath ==
    /\ call.op = "split_by_xpath"
    /\ pc = "called"
    /\ pc' = "returned"
    /\ ret' = split_by_xpath(call.html_content)
    /\ UNCHANGED <<book, call, fs>>
    /\ UNCHANGED worker

NextXpath == SplitByXpath

SpecXpath == InitXpath /\ [][NextXpath]_vars

\* The chapter nodes of the parsed fragment, in document order.
XpathTree == call.html_content
ChapterNodes == {k \in 1..Len(XpathTree) : is_chapter_node(XpathTree, k)}

\* The text of the nodes k..e of one subtree without the text of the chapter
\* nodes inside it.
RECURSIVE BodyText(_, _, _)
BodyText(tree, k, e) ==
    IF k > e THEN <<>>
    ELSE LET ke == SubtreeEnd(tree, k)
         IN (IF is_chapter_node(tree, k) THEN <<>>
             ELSE tree[k].text \o BodyText(tree, k + 1, ke))
            \o tree[k].tail \o BodyText(tree, ke + 1, e)

\* The siblings after node k up to the next sibling that is a chapter node.
RECURSIVE SiblingsUntilHeading(_, _)
SiblingsUntilHeading(tree, k) ==
    IF k = 0 \/ is_chapter_node(tree, k) THEN <<>>
    ELSE <<k>> \o SiblingsUntilHeading(tree, getnext(tree, k))

\* What belongs to the chapter of heading k: the normalized text of those
\* siblings, no chapter node's own text included.
BodyOfHeading(tree, k) ==
    LET sibs == SiblingsUntilHeading(tree, getnext(tree, k))
    IN normalize_text(Join(
           [j \in 1..Len(sibs) |->
               IF is_chapter_node(tree, sibs[j]) THEN <<>>
               ELSE tree[sibs[j]].text
                    \o BodyText(tree, sibs[j] + 1, SubtreeEnd(tree, sibs[j]))],
           "n"))

\* The j-th smallest element of a set of node positions.
NthOf(S, j) == CHOOSE k \in S : Cardinality({m \in S : m <= k}) = j

\* C4: for a tree with at least one heading-matching node, split_by_xpath
\* returns chapters in document order, each chapter's content being exactly
\* the normalized text of the siblings between its heading and the next
\* heading-matching node, with no heading-matching node's own text in any
\* content, also when such a node is nested inside a following sibling.
C4_StructuralDetector ==
    (pc = "returned" /\ ChapterNodes # {}) =>
        \E S \in SUBSET ChapterNodes :
            /\ Cardinality(S) = Len(ret)
            /\ \A j \in 1..Len(ret) :
                  /\ ret[j].title = Strip(text_content(XpathTree, NthOf(S, j)))
                  /\ ret[j].content = BodyOfHeading(XpathTree, NthOf(S, j))

\* ------------------------------------------------------ the handler's book

NoCall == [op |-> "none"]

\* The fragments of the books: a matching heading with a paragraph; a
\* paragraph that reads like a heading, and a paragraph; a plain paragraph;
\* an element of class chapter with a paragraph.
BookFragments ==
    { <<Node(0, "h1", <<"C", "s", "x">>, <<"n">>), Node(0, "p", <<"x">>, <<"n">>)>>,
      <<Node(0, "p", <<"C", "s", "x">>, <<"n">>), Node(0, "p", <<"x">>, <<"n">>)>>,
      <<Node(0, "p", <<"x">>, <<"n">>)>>,
      <<Node(0, "chapter", <<"x">>, <<"n">>), Node(0, "p", <<"x">>, <<"n">>)>> }

\* The hrefs a table-of-contents entry may carry: the first item, a name no
\* item has, or none.
TocHrefs == {ItemHref(1), GoneHref, NoHref}

\* The book of the fragments f, with the navigation entries of depths d and
\* hrefs h.
Book(f, d, h) ==
    [items |-> [k \in 1..Len(f) |-> Item(ItemHref(k), f[k])],
     toc |-> [k \in 1..Len(d) |-> TocEntry(d[k], <<"x">>, h[k])]]

\* b is a book of one to maxItems items and at most maxToc entries.
IsBookOf(b, fragments, maxItems, maxToc, hrefs) ==
    \E n \in 1..maxItems, m \in 0..maxToc :
        \E f \in [1..n -> fragments], d \in DepthSeqs(m, MaxTocDepth),
           h \in [1..m -> hrefs] :
            b = Book(f, d, h)

Methods == {"xpath", "regex", "toc", "auto"}

Init ==
    /\ IsBookOf(book, BookFragments, MaxBookItems, MaxBookToc, TocHrefs)
    /\ fs = NoFiles
    /\ call = NoCall
    /\ ret = NoReturn
    /\ pc = "idle"
    /\ NoWorker

SplitIntoChapters ==
    \E m \in Methods :
        /\ call' = [op |-> "split_into_chapters", detection_method |-> m]
        /\ ret' = split_into_chapters(book, m)
        /\ pc' = "returned"
        /\ UNCHANGED <<book, fs>>
        /\ UNCHANGED worker

GetAllChapters ==
    \E m \in Methods :
        /\ call' = [op |-> "get_all_chapters", detection_method |-> m]
        /\ ret' = get_all_chapters(book, m)
        /\ pc' = "returned"
        /\ UNCHANGED <<book, fs>>
        /\ UNCHANGED worker

GetTocChapters ==
    \E a \in BOOLEAN :
        /\ call' = [op |-> "get_toc_chapters", include_all |-> a]
        /\ ret' = get_toc_chapters(book, a)
        /\ pc' = "returned"
        /\ UNCHANGED <<book, fs>>
        /\ UNCHANGED worker

Next == SplitIntoChapters \/ GetAllChapters \/ GetTocChapters

Spec == Init /\ [][Next]_vars

\* What each detector finds in the book.
Structural == XpathOfItems(book, 1)
Pattern == split_by_regex(extract_all_text(book))
Navigation == get_toc_chapters(book, FALSE)

Explicit(m) ==
    IF m = "xpath" THEN Structural
    ELSE IF m = "regex" THEN Pattern
    ELSE IF m = "toc" THEN Navigation ELSE <<>>

\* C1: in automatic mode split_into_chapters returns the structural result if
\* it is not empty, else the pattern result if it is not empty, else the
\* navigation result; never chapters of two detectors together.
C1_AutomaticFirstNonEmpty ==
    (call.op = "split_into_chapters" /\ call.detection_method = "auto") =>
        ret = IF Structural # <<>> THEN Structural
              ELSE IF Pattern # <<>> THEN Pattern ELSE Navigation

\* Structural detection found nothing, pattern and navigation both found
\* chapters, and the pattern result alone was returned.
C1_Witness ==
    /\ call.op = "split_into_chapters" /\ call.detection_method = "auto"
    /\ Structural = <<>> /\ Pattern # <<>> /\ Navigation # <<>>
    /\ ret = Pattern

\* C7: every chapter returned by split_into_chapters or get_all_chapters, with
\* any method, carries an href and a level: the href of its navigation entry,
\* or else 'chapter_<i>.html' by its position in the list with level 0.
C7_HrefAndLevelAlways ==
    call.op \in {"split_into_chapters", "get_all_chapters"} =>
        \A i \in 1..Len(ret) :
            /\ {"href", "level"} \subseteq DOMAIN ret[i]
            /\ \/ \E k \in 1..Len(book.toc) : ret[i].href = book.toc[k].href
               \/ ret[i].href = ChapterHref(i - 1) /\ ret[i].level = 0

\* C8: with an explicit method split_into_chapters returns that detector's
\* result, the empty list included, whatever the other detectors would find.
C8_ExplicitOnlyRequested ==
    (call.op = "split_into_chapters"
        /\ call.detection_method \in {"xpath", "regex", "toc"}) =>
        ret = Explicit(call.detection_method)

\* The structural detector was requested and found nothing, the result is
\* empty, and the pattern detector would have found chapters.
C8_Witness ==
    /\ call.op = "split_into_chapters" /\ call.detection_method = "xpath"
    /\ ret = <<>>
    /\ Pattern # <<>>

\* C9 as stated: get_all_chapters returns the requested strategy's chapters
\* when there are any, otherwise the first non-empty result of navigation
\* then pattern, and the result is never empty.
C9_NeverEmptyChoice ==
    call.op = "get_all_chapters" =>
        /\ ret = add_attributes(
                     IF Explicit(call.detection_method) # <<>>
                     THEN Explicit(call.detection_method)
                     ELSE IF Navigation # <<>> THEN Navigation ELSE Pattern)
        /\ ret # <<>>

\* C9 as amended: get_all_chapters returns the requested strategy's chapters
\* when there are any, otherwise the first non-empty result of navigation
\* then pattern, each chapter completed with href and level; the result is
\* empty exactly when the requested strategy, navigation and pattern all
\* find nothing.
C9_FallbackChain ==
    call.op = "get_all_chapters" =>
        /\ ret = add_attributes(
                     IF Explicit(call.detection_method) # <<>>
                     THEN Explicit(call.detection_method)
                     ELSE IF Navigation # <<>> THEN Navigation ELSE Pattern)
        /\ (ret = <<>>) <=> /\ Explicit(call.detection_method) = <<>>
                            /\ Navigation = <<>>
                            /\ Pattern = <<>>

\* The pattern detector was requested and found nothing, and the chapters of
\* the navigation detector were returned.
C9_Witness ==
    /\ call.op = "get_all_chapters" /\ call.detection_method = "regex"
    /\ Pattern = <<>> /\ Navigation # <<>>
    /\ ret = add_attributes(Navigation)

\* ------------------------------------------- the navigation detector alone

TocFragments ==
    { <<Node(0, "p", <<"x">>, <<"n">>)>>,
      <<Node(0, "p", <<"C", "s", "x">>, <<"n">>), Node(0, "p", <<"x">>, <<"n">>)>> }

InitToc ==
    /\ IsBookOf(book, TocFragments, MaxTocItems, MaxTocEntries, TocHrefs)
    /\ fs = NoFiles
    /\ call \in [op : {"get_toc_chapters"}, include_all : BOOLEAN]
    /\ ret = NoReturn
    /\ pc = "called"
    /\ NoWorker

GetTocChaptersOnce ==
    /\ call.op = "get_toc_chapters"
    /\ pc = "called"
    /\ pc' = "returned"
    /\ ret' = get_toc_chapters(book, call.include_all)
    /\ UNCHANGED <<book, call, fs>>
    /\ UNCHANGED worker

NextToc == GetTocChaptersOnce

SpecToc == InitToc /\ [][NextToc]_vars

\* Whether entry k references a content fragment the book holds.
Resolvable(k) ==
    /\ book.toc[k].href # NoHref
    /\ \E j \in 1..Len(book.items) : book.items[j].href = book.toc[k].href

\* The entries a traversal bounded to depth 2 materializes, in pre-order.
EmittedEntries ==
    SelectSeq([k \in 1..Len(book.toc) |-> k],
              LAMBDA k : book.toc[k].depth <= 2 /\ Resolvable(k))

\* The text of the fragment entry k references.
FragmentText(k) ==
    LET j == CHOOSE j \in 1..Len(book.items) : book.items[j].href = book.toc[k].href
    IN extract_text_from_html(book.items[j].html)

\* C10: without include-all, get_toc_chapters emits in depth-first pre-order
\* exactly the entries of depth at most 2 that reference a resolvable
\* fragment, each with level equal to its depth; deeper entries are never
\* emitted, and an unresolvable entry is skipped without its children.
C10_NavigationDetector ==
    (pc = "returned" /\ ~call.include_all) =>
        /\ Len(ret) = Len(EmittedEntries)
        /\ \A i \in 1..Len(ret) :
              LET k == EmittedEntries[i]
              IN ret[i] = TocChapter(book.toc[k].title, FragmentText(k),
                                     book.toc[k].href, book.toc[k].depth)

\* A resolvable entry of depth 3 left out while its parent of depth 2 is
\* emitted, and an entry without content whose child is emitted.
C10_Witness ==
    /\ pc = "returned" /\ ~call.include_all
    /\ \E k \in 1..Len(book.toc) : book.toc[k].depth = 3 /\ Resolvable(k)
    /\ \E i \in 1..Len(ret) : ret[i].level = 2
    /\ \E k \in 1..(Len(book.toc) - 1) :
          /\ ~Resolvable(k)
          /\ book.toc[k + 1].depth = book.toc[k].depth + 1
          /\ Resolvable(k + 1)
          /\ book.toc[k + 1].depth <= 2

\* The chapters of the navigation tree, and the pattern detector's chapters
\* as include-all hands them out.
NavigationChapters ==
    [i \in 1..Len(EmittedEntries) |->
        TocChapter(book.toc[EmittedEntries[i]].title, FragmentText(EmittedEntries[i]),
                   book.toc[EmittedEntries[i]].href, book.toc[EmittedEntries[i]].depth)]
SyntheticChapters ==
    [i \in 1..Len(Pattern) |->
        TocChapter(Pattern[i].title, Pattern[i].content, ChapterHref(i - 1), 0)]

\* C17: get_toc_chapters(include_all=True) returns the pattern detector's
\* chapters, with href 'chapter_<i>.html' by position and level 0, when the
\* navigation tree resolves to zero chapters, and the navigation chapters
\* alone when it resolves to at least one; get_toc_chapters(include_all=False)
\* returns the navigation chapters alone, empty or not.
C17_IncludeAll ==
    (call.op = "get_toc_chapters" /\ pc = "returned") =>
        /\ (call.include_all /\ NavigationChapters = <<>>) => ret = SyntheticChapters
        /\ (call.include_all /\ NavigationChapters # <<>>) => ret = NavigationChapters
        /\ ~call.include_all => ret = NavigationChapters

\* Include-all on a navigation tree with entries that resolve to nothing,
\* answered by the pattern detector.
C17_Witness ==
    /\ call.op = "get_toc_chapters" /\ pc = "returned"
    /\ call.include_all
    /\ Len(book.toc) >= 1
    /\ NavigationChapters = <<>>
    /\ Len(ret) >= 1
    /\ ret[1].href = ChapterHref(0)

\* ------------------------------------------------- the merge engine alone

NameTokens == {"a", "0", "1", "2"}
OutputPath == <<"summary.md">>

\* A list of summary artifacts: base names over NameTokens, written one
\* after another with "," between them.
SummaryList(flat) ==
    LET stems == Split(flat, ",")
    IN [k \in 1..Len(stems) |-> SummaryPath(stems[k])]

\* What a run stored as the summary artifact `path': the summarizer returned
\* a word and the name.
StoredSummary(path) ==
    LET stem == SelectSeq(path, LAMBDA t : t # SummarySuffix)
    IN summary_text(stem, <<"x", "s">> \o stem)

InitMerge ==
    /\ book = NoBook
    /\ \E flat \in SeqsUpTo(NameTokens \cup {","}, MaxListLen) :
          LET files == SummaryList(flat)
          IN /\ call = [op |-> "merge_summaries", summary_files |-> files,
                        output_path |-> OutputPath]
             /\ \E bad \in SUBSET {files[k] : k \in 1..Len(files)} :
                   fs = [p \in {files[k] : k \in 1..Len(files)} |->
                            IF p \in bad THEN Unreadable ELSE StoredSummary(p)]
    /\ ret = NoReturn
    /\ pc = "called"
    /\ NoWorker

\* The caller's list after the call: sorted() builds a new list and the
\* other branch only reads it.
summary_files_after(files) == files

MergeSummaries ==
    /\ call.op = "merge_summaries"
    /\ pc = "called"
    /\ fs' = [p \in DOMAIN fs \cup {call.output_path} |->
                 IF p = call.output_path
                 THEN merged_file(fs, call.summary_files) ELSE fs[p]]
    /\ call' = [call EXCEPT !.summary_files = summary_files_after(@)]
    /\ ret' = TRUE
    /\ pc' = "returned"
    /\ UNCHANGED book
    /\ UNCHANGED worker

NextMerge == MergeSummaries

SpecMerge == InitMerge /\ [][NextMerge]_vars

\* The artifacts given, and the document written.
Given == call.summary_files
Merged == fs[call.output_path]

\* The first numeral of a name as a number, 0 for a name without numeral.
FirstNumeral(name) ==
    IF \E k \in 1..Len(name) : IsDigit(name[k])
    THEN LET a == CHOOSE k \in 1..Len(name) :
                      IsDigit(name[k]) /\ \A m \in 1..(k - 1) : ~IsDigit(name[m])
             b == CHOOSE e \in a..Len(name) :
                      /\ \A m \in a..e : IsDigit(name[m])
                      /\ (e = Len(name) \/ ~IsDigit(name[e + 1]))
             Pow10[n \in 0..Len(name)] == IF n = 0 THEN 1 ELSE 10 * Pow10[n - 1]
             Sum[m \in (a - 1)..b] ==
                 IF m < a THEN 0 ELSE Sum[m - 1] + DigitValue(name[m]) * Pow10[b - m]
         IN Sum[b]
    ELSE 0

\* The place position a of a list with these keys must take: after every
\* position with a smaller key, and after the earlier ones with the same.
PlaceOf(key, a) ==
    1 + Cardinality({b \in DOMAIN key : key[b] < key[a] \/ (key[b] = key[a] /\ b < a)})

\* The positions of the given list in the order the sections must have.
ResolvedOrder ==
    IF \E k \in 1..Len(Given) : \E j \in 1..Len(Given[k]) : IsDigit(Given[k][j])
    THEN LET key == [a \in 1..Len(Given) |-> FirstNumeral(Given[a])]
         IN [k \in 1..Len(Given) |-> CHOOSE a \in 1..Len(Given) : PlaceOf(key, a) = k]
    ELSE [k \in 1..Len(Given) |-> k]

\* The k-th index entry and the two writes of the k-th section.
IndexEntry(k) == Merged[2 + k]
SectionHeading(k) == Merged[3 + Len(Given) + 2 * k - 1]
SectionText(k) == Merged[3 + Len(Given) + 2 * k]

\* C2: if some base name holds a numeral, the sections are in ascending order
\* of the first numeral of each name (0 for a name without one), equal keys
\* in input order; if no name holds a numeral, they are in the input order.
C2_MergeOrdering ==
    pc = "returned" =>
        /\ Len(Merged) = 3 + 3 * Len(Given)
        /\ \A k \in 1..Len(Given) :
              /\ IndexEntry(k) = WriteEntry(k, chapter_title(Given[ResolvedOrder[k]]))
              /\ SectionHeading(k)[2] = k
              /\ SectionHeading(k)[3] \in
                    { chapter_title(Given[ResolvedOrder[k]]), Given[ResolvedOrder[k]] }

\* Names with numerals given out of order, one of them with a numeral of two
\* digits that sorts after a smaller numeral of one digit, and a tie.
C2_Witness ==
    /\ pc = "returned"
    /\ Len(Given) >= 3
    /\ \E k \in 1..Len(Given) : ResolvedOrder[k] # k
    /\ \E a, b \in 1..Len(Given) :
          /\ a < b
          /\ Given[a] # Given[b]
          /\ FirstNumeral(Given[a]) = FirstNumeral(Given[b])

\* C6: every position has its numbered section, readable or not; an
\* unreadable artifact has an error note for its body, every other section is
\* the one the artifact has when all can be read, and the merge returns True.
C6_UnreadableArtifact ==
    pc = "returned" =>
        /\ ret = TRUE
        /\ Len(Merged) = 3 + 3 * Len(Given)
        /\ \A k \in 1..Len(Given) :
              LET f == Given[ResolvedOrder[k]]
              IN /\ SectionHeading(k)[1] = "## heading"
                 /\ SectionHeading(k)[2] = k
                 /\ IF Readable(fs, f)
                    THEN /\ SectionHeading(k) = WriteHeading(k, chapter_title(f))
                         /\ SectionText(k) = WriteBody(section_body(StoredSummary(f)))
                    ELSE SectionText(k) = WriteError

\* An unreadable artifact between two readable ones.
C6_Witness ==
    /\ pc = "returned"
    /\ \E i, j, k \in 1..Len(Given) :
          /\ i < j /\ j < k
          /\ Readable(fs, Given[ResolvedOrder[i]])
          /\ ~Readable(fs, Given[ResolvedOrder[j]])
          /\ Readable(fs, Given[ResolvedOrder[k]])

\* The merged document has one index entry and one section for each position
\* of the given list, numbered from 1; entry k and section k are those of
\* the same artifact of the list; and the positions they are taken from are
\* all different, so each artifact occurs as often as it was given.
MergedIsPermutation ==
    pc = "returned" =>
        LET order == ResolvedOrder
        IN /\ Len(Merged) = 3 + 3 * Len(Given)
           /\ \A a, b \in 1..Len(Given) : a # b => order[a] # order[b]
           /\ \A k \in 1..Len(Given) :
                 LET f == Given[order[k]]
                 IN /\ IndexEntry(k) = WriteEntry(k, chapter_title(f))
                    /\ SectionHeading(k) =
                          WriteHeading(k, IF Readable(fs, f) THEN chapter_title(f) ELSE f)
                    /\ SectionText(k) =
                          IF Readable(fs, f) THEN WriteBody(section_body(fs[f]))
                          ELSE WriteError

\* The call leaves the list it was given as it was.
InputListKept == call'.summary_files = call.summary_files

\* C19: for every list of N artifacts, with or without numerals, with
\* duplicates, readable or not, the merged document has N index entries and
\* N sections numbered 1..N, entry k and section k refer to the same
\* artifact, every artifact occurs as often as in the list, and the list
\* given by the caller is not modified.
C19_MergeIsPermutation == []MergedIsPermutation /\ [][InputListKept]_vars

\* A list with a duplicate, an artifact that cannot be read and numerals
\* that change the order, merged.
C19_Witness ==
    /\ pc = "returned"
    /\ call.op = "merge_summaries"
    /\ Len(Given) >= 3
    /\ \E a, b \in 1..Len(Given) : a # b /\ Given[a] = Given[b]
    /\ \E a \in 1..Len(Given) : ~Readable(fs, Given[a])
    /\ \E k \in 1..Len(Given) : ResolvedOrder[k] # k

\* --------------------------------------- the merge engine on summary texts

\* The characters of a summary: the heading marker, a word, a newline, a
\* space.
SummaryTokens == {"#", "x", "n", "s"}

\* One artifact without numeral, or two with numerals given out of order.
BodyLists == { <<SummaryPath(<<"a">>)>>, <<SummaryPath(<<"2">>), SummaryPath(<<"1">>)>> }

\* Artifacts as the worker stores them, each holding the summary.
InitMergeBody ==
    /\ book = NoBook
    /\ \E files \in BodyLists, summary \in SeqsUpTo(SummaryTokens, MaxSummaryLen) :
          /\ call = [op |-> "merge_summaries", summary_files |-> files,
                     output_path |-> OutputPath]
          /\ fs = [p \in {files[k] : k \in 1..Len(files)} |->
                      summary_text(SelectSeq(p, LAMBDA t : t # SummarySuffix), summary)]
    /\ ret = NoReturn
    /\ pc = "called"
    /\ NoWorker

NextMergeBody == MergeSummaries

SpecMergeBody == InitMergeBody /\ [][NextMergeBody]_vars

IsHeadingLine(line) == Strip(line) # <<>> /\ Strip(line)[1] = "#"

RECURSIVE DropLeadingHeadings(_)
DropLeadingHeadings(lines) ==
    IF Len(lines) > 0 /\ IsHeadingLine(lines[1])
    THEN DropLeadingHeadings(Tail(lines))
    ELSE lines

\* C18: the section of a readable artifact is headed '## <n>. <display
\* title>' by its number in the index, and its body is the stored text
\* without its leading heading-marker lines, every line from the first
\* non-heading line on being carried (the whole trimmed).
C18_BodyStripsLeadingHeadings ==
    pc = "returned" =>
        \A k \in 1..Len(Given) :
            LET f == Given[ResolvedOrder[k]]
            IN Readable(fs, f) =>
                /\ SectionHeading(k) = WriteHeading(k, chapter_title(f))
                /\ SectionText(k) =
                      WriteBody(Strip(Join(DropLeadingHeadings(Split(fs[f], "n")), "n")))

\* --------------------------------------------------------- the worker run

\* The chapters a user may have selected: two numbered titles, a title with
\* a character no file name may hold, the title that character is replaced
\* into, and a second chapter under the first title.
SelectableChapters ==
    { TocChapter(<<"C", "s", "1">>, <<"x">>, ChapterHref(0), 0),
      TocChapter(<<"C", "s", "2">>, <<"x">>, ChapterHref(1), 0),
      TocChapter(<<"x", "/", "2">>, <<"x">>, ChapterHref(2), 0),
      TocChapter(<<"x", "_", "2">>, <<"x">>, ChapterHref(3), 0),
      TocChapter(<<"C", "s", "1">>, <<"x", "x">>, ChapterHref(4), 0) }

\* What the summarizer may return.
Summaries == {<<"x">>}

\* Why one artifact of the summary loop may fail.
FileFailures == {"generate_summary failed", "write failed"}

InitRun ==
    /\ book = NoBook
    /\ fs = NoFiles
    /\ \/ \E sel \in SeqsUpTo(SelectableChapters, MaxSelected) \ {<<>>} :
             call = [op |-> "run", loadable |-> TRUE, epub |-> NoBook,
                     selected_chapters |-> sel, detection_method |-> 1]
       \/ \E n \in 1..MaxTocItems, m \in 0..MaxBookToc :
             \E f \in [1..n -> BookFragments], d \in DepthSeqs(m, MaxTocDepth),
                h \in [1..m -> TocHrefs], detection_method \in 0..3 :
                call = [op |-> "run", loadable |-> TRUE, epub |-> Book(f, d, h),
                        selected_chapters |-> <<>>,
                        detection_method |-> detection_method]
       \/ call = [op |-> "run", loadable |-> FALSE, epub |-> NoBook,
                  selected_chapters |-> <<>>, detection_method |-> 1]
    /\ ret = NoReturn
    /\ pc = "load"
    /\ NoWorker

\* 1. self.epub_handler.load_epub(self.epub_path)
LoadEpub ==
    /\ pc = "load"
    /\ IF call.loadable
       THEN /\ book' = call.epub
            /\ emitted' = Append(emitted, Log("loading", <<>>))
            /\ pc' = "chapters"
       ELSE /\ book' = book
            /\ emitted' = emitted \o <<Log("loading", <<>>), Log("failed", <<"load">>),
                                       TaskComplete(FALSE)>>
            /\ pc' = "done"
    /\ UNCHANGED <<call, ret, fs, chapters, md_files, summary_files, file_index>>
    /\ UNCHANGED summarizer

\* 2. the chapters: those selected, or split_into_chapters(method_name)
GetChapters ==
    /\ pc = "chapters"
    /\ chapters' = IF call.selected_chapters # <<>>
                   THEN call.selected_chapters
                   ELSE split_into_chapters(book, method_name(call.detection_method))
    /\ emitted' = emitted \o
          (IF call.selected_chapters # <<>>
           THEN <<Log("selected", <<Len(call.selected_chapters)>>)>>
           ELSE <<Log("splitting", <<method_name(call.detection_method)>>)>>)
          \o <<Log("converting", <<>>)>>
    /\ pc' = "markdown"
    /\ UNCHANGED <<book, call, ret, fs, md_files, summary_files, file_index>>
    /\ UNCHANGED summarizer

\* 3. one chapter is written as its markdown artifact; a failing write leaves
\* the loop for the handler of the whole run.
WriteMarkdown ==
    /\ pc = "markdown"
    /\ Len(md_files) < Len(chapters)
    /\ LET chapter == chapters[Len(md_files) + 1]
       IN \/ /\ fs' = WriteFile(fs, md_path(chapter.title), md_text(chapter))
             /\ md_files' = Append(md_files, md_path(chapter.title))
             /\ pc' = "markdown"
             /\ UNCHANGED emitted
          \/ /\ emitted' = emitted \o <<Log("failed", md_path(chapter.title)),
                                         TaskComplete(FALSE)>>
             /\ pc' = "done"
             /\ UNCHANGED <<fs, md_files>>
    /\ UNCHANGED <<book, call, ret, chapters, summary_files, file_index>>
    /\ UNCHANGED summarizer

\* 4. every chapter is written: the summary loop starts.
StartSummaries ==
    /\ pc = "markdown"
    /\ Len(md_files) = Len(chapters)
    /\ emitted' = emitted \o <<Log("saved", <<Len(md_files)>>), Log("summarizing", <<>>)>>
    /\ pc' = IF Len(md_files) = 0 THEN "merge" ELSE "summarize"
    /\ UNCHANGED <<book, call, ret, fs, chapters, md_files, summary_files, file_index>>
    /\ UNCHANGED summarizer

\* One artifact of the summary loop: read, summarized and stored, or failed
\* and logged.
SummarizeFile ==
    /\ pc = "summarize"
    /\ LET md_file == md_files[file_index + 1]
           output_path == SummaryPath(splitext(md_file))
       IN \/ \E summary \in Summaries :
                /\ Readable(fs, md_file)
                /\ fs' = WriteFile(fs, output_path,
                                   summary_text(splitext(md_file), summary))
                /\ summary_files' = Append(summary_files, output_path)
                /\ emitted' = emitted \o <<Log("processing", md_file),
                                            Log("summary ok", output_path)>>
                /\ pc' = after_file(file_index + 1, Len(md_files), TRUE)
          \/ \E why \in FileFailures :
                /\ emitted' = emitted \o <<Log("processing", md_file),
                                            Log(why, md_file)>>
                /\ pc' = after_file(file_index + 1, Len(md_files), FALSE)
                /\ UNCHANGED <<fs, summary_files>>
    /\ file_index' = file_index + 1
    /\ UNCHANGED <<book, call, ret, chapters, md_files>>
    /\ UNCHANGED summarizer

\* 5. merge_summaries on the summaries written, if any; its failure is
\* logged.
MergeStep ==
    /\ pc = "merge"
    /\ IF summary_files # <<>>
       THEN /\ call' = [op |-> "merge_summaries", summary_files |-> summary_files,
                        output_path |-> OutputPath]
            /\ \/ /\ fs' = WriteFile(fs, OutputPath, merged_file(fs, summary_files))
                  /\ ret' = TRUE
                  /\ emitted' = emitted \o <<Log("merging", <<>>), Log("merged", OutputPath)>>
               \/ /\ emitted' = emitted \o <<Log("merging", <<>>),
                                              Log("merge failed", OutputPath)>>
                  /\ UNCHANGED <<fs, ret>>
       ELSE UNCHANGED <<call, fs, ret, emitted>>
    /\ pc' = "complete"
    /\ UNCHANGED <<book, chapters, md_files, summary_files, file_index>>
    /\ UNCHANGED summarizer

\* self.task_complete.emit(True, ...)
Complete ==
    /\ pc = "complete"
    /\ emitted' = emitted \o <<Log("all done", <<>>), TaskComplete(TRUE)>>
    /\ pc' = "done"
    /\ UNCHANGED <<book, call, ret, fs, chapters, md_files, summary_files, file_index>>
    /\ UNCHANGED summarizer

NextRun ==
    \/ LoadEpub \/ GetChapters \/ WriteMarkdown \/ StartSummaries
    \/ SummarizeFile \/ MergeStep \/ Complete

SpecRun == InitRun /\ [][NextRun]_vars

IsLog(e, kinds) == e[1] = "update_log" /\ e[2] \in kinds
IsSubmission(e) == IsLog(e, {"processing"})
IsOutcome(e) == IsLog(e, {"summary ok"} \cup FileFailures)

\* The artifacts the summary loop took up, and how each one ended, in the
\* order of the log.
Submitted == [k \in 1..Len(SelectSeq(emitted, IsSubmission)) |->
                 SelectSeq(emitted, IsSubmission)[k][3]]
Outcomes == [k \in 1..Len(SelectSeq(emitted, IsOutcome)) |->
                SelectSeq(emitted, IsOutcome)[k][2]]
SummaryLoopStarted == \E k \in 1..Len(emitted) : IsLog(emitted[k], {"summarizing"})

RECURSIVE SummariesOfSucceeded(_)
SummariesOfSucceeded(k) ==
    IF k = 0 THEN <<>>
    ELSE SummariesOfSucceeded(k - 1) \o
         (IF Outcomes[k] = "summary ok"
          THEN <<SummaryPath(splitext(md_files[k]))>> ELSE <<>>)

\* C5: once a run has entered its summary loop and ended, every chapter
\* artifact was submitted, in order, whatever happened to the ones before
\* it; the summaries collected are those of the artifacts that succeeded, in
\* submission order; merge_summaries, when there is any summary, was called
\* with exactly that list; and the last signal is task_complete(True).
\* While the loop runs, the artifacts submitted are the first file_index
\* ones.
C5_PartialFailure ==
    /\ pc = "summarize" =>
          /\ file_index < Len(md_files)
          /\ Submitted = SubSeq(md_files, 1, file_index)
    /\ (pc = "done" /\ SummaryLoopStarted) =>
          /\ Submitted = md_files
          /\ Len(Outcomes) = Len(md_files)
          /\ summary_files = SummariesOfSucceeded(Len(md_files))
          /\ summary_files # <<>> =>
                /\ call.op = "merge_summaries"
                /\ call.summary_files = summary_files
          /\ summary_files = <<>> => call.op = "run"
          /\ emitted[Len(emitted)] = TaskComplete(TRUE)

\* A run of three artifacts where the second failed in generate_summary and
\* the other two succeeded, ended.
C5_Witness ==
    /\ pc = "done"
    /\ Len(md_files) = 3
    /\ Outcomes = <<"summary ok", "generate_summary failed", "summary ok">>
    /\ call.op = "merge_summaries"
    /\ Len(call.summary_files) = 2
    /\ emitted[Len(emitted)] = TaskComplete(TRUE)

\* C12: in a run over pairwise distinct chapters, the chapters written so far
\* have pairwise distinct artifacts, and each artifact still holds the text
\* written for its chapter (it was created once and not written again).
C12_OneArtifactPerChapter ==
    (\A a, b \in 1..Len(chapters) : a # b => chapters[a] # chapters[b]) =>
        \A a \in 1..Len(md_files) :
            /\ Readable(fs, md_files[a])
            /\ fs[md_files[a]] = md_text(chapters[a])
            /\ \A b \in 1..Len(md_files) : a # b => md_files[a] # md_files[b]

LoadFailed ==
    \E k \in 1..Len(emitted) :
        IsLog(emitted[k], {"failed"}) /\ emitted[k][3] = <<"load">>

\* C13: a run that has ended reports task_complete(False) when the source
\* could not be loaded and when segmentation gave zero chapters; it reports
\* task_complete(True) only when at least one chapter was obtained.
C13_DocumentLevelFailures ==
    pc = "done" =>
        /\ LoadFailed => emitted[Len(emitted)] = TaskComplete(FALSE)
        /\ Len(chapters) = 0 => emitted[Len(emitted)] = TaskComplete(FALSE)
        /\ emitted[Len(emitted)] = TaskComplete(TRUE) => Len(chapters) >= 1

\* The chapters whose artifact could not be written.
FailedWrites ==
    {k \in 1..Len(emitted) :
        IsLog(emitted[k], {"failed"}) /\ emitted[k][3] # <<"load">>}

\* C14: a run whose source was loaded and that has ended was not aborted by
\* a failing write of a chapter artifact or of a summary: it ends with
\* task_complete(True), every chapter but the failing ones has its artifact,
\* and every artifact written went through the summary loop.
C14_WriteFailureIsPartial ==
    (pc = "done" /\ ~LoadFailed) =>
        /\ emitted[Len(emitted)] = TaskComplete(TRUE)
        /\ Len(md_files) + Cardinality(FailedWrites) = Len(chapters)
        /\ Len(Outcomes) = Len(md_files)

\* C16: for a fragment whose heading-matching nodes all have a title,
\* split_by_xpath returns one chapter per heading-matching node, in document
\* order under that node's title; a heading-matching node with no following
\* sibling, or whose next sibling is a heading-matching node, gives a chapter
\* with empty content.
C16_OneChapterPerHeading ==
    (/\ call.op = "split_by_xpath"
     /\ pc = "returned"
     /\ \A k \in ChapterNodes : Strip(text_content(XpathTree, k)) # <<>>) =>
        /\ Len(ret) = Cardinality(ChapterNodes)
        /\ \A j \in 1..Len(ret) :
              LET k == NthOf(ChapterNodes, j)
              IN /\ ret[j].title = Strip(text_content(XpathTree, k))
                 /\ (getnext(XpathTree, k) = 0
                        \/ is_chapter_node(XpathTree, getnext(XpathTree, k)))
                    => ret[j].content = <<>>

\* ------------------------------------------------ the text normalizer alone

NormalizerTokens == {"s", "n", "t", "x"}

InitNormalize ==
    /\ book = NoBook
    /\ fs = NoFiles
    /\ \E text \in SeqsUpTo(NormalizerTokens, MaxTextLen) :
          call = [op |-> "normalize", text |-> text]
    /\ ret = NoReturn
    /\ pc = "called"
    /\ NoWorker

\* The normalizer runs on the text.
NormalizeText ==
    /\ pc = "called"
    /\ ret' = <<normalize_text(call.text)>>
    /\ pc' = "normalized"
    /\ UNCHANGED <<book, call, fs>>
    /\ UNCHANGED worker

\* The normalizer runs on its own result.
NormalizeAgain ==
    /\ pc = "normalized"
    /\ ret' = Append(ret, normalize_text(ret[1]))
    /\ pc' = "returned"
    /\ UNCHANGED <<book, call, fs>>
    /\ UNCHANGED worker

NextNormalize == NormalizeText \/ NormalizeAgain

SpecNormalize == InitNormalize /\ [][NextNormalize]_vars

\* C15: the normalizer applied to its own result returns that result.
C15_NormalizerIdempotent ==
    pc = "returned" => ret[2] = ret[1]

\* A text the normalizer changed into several lines, normalized twice.
C15_Witness ==
    /\ pc = "returned"
    /\ call.op = "normalize"
    /\ ret[1] # call.text
    /\ \E k \in 1..Len(ret[1]) : ret[1][k] = "n"
    /\ \E k \in 1..(Len(call.text) - 1) : call.text[k] = "s" /\ call.text[k + 1] = "s"

\* ---------------------------------------------------- the summarizer call

\* What requests.post may meet: status 200 with a message content, status
\* 200 with a body that lacks it, another status, or an exception of the
\* request (the 30 s timeout, a refused connection).
Responses ==
    { <<"200", <<"x">>>>, <<"200", <<"s", "x", "n">>>>,
      <<"200 malformed">>, <<"500">>, <<"timeout">> }

\* if response.status_code == 200: result['choices'][0]['message']['content']
Succeeds(response) == response[1] = "200"

\* A plausible slip: `retry < max_retries' for `retry < max_retries - 1'.
has_next_attempt_always(k, max_retries) == k < max_retries

\* if retry < max_retries - 1
has_next_attempt(k, max_retries) == k < max_retries - 1

\* wait_time = 2 ** retry
wait_time(k) == 2 ^ k

\* The texts submitted.
SubmittedTexts == {<<"x">>, <<"x", "n", "x">>}

InitRetry ==
    /\ book = NoBook
    /\ fs = NoFiles
    /\ \E text \in SubmittedTexts, n \in 0..MaxRetries :
          call = [op |-> "generate_summary", text |-> text, max_retries |-> n]
    /\ ret = NoReturn
    /\ pc = "loop"
    /\ NoWorker

\* One pass of the loop body: the request, then the return, the wait to
\* come, or the terminal failure.
PostRequest ==
    /\ pc = "loop"
    /\ retry < call.max_retries
    /\ \E response \in Responses :
          /\ effects' = Append(effects, <<"post", call.text, response>>)
          /\ IF Succeeds(response)
             THEN /\ ret' = Strip(response[2])
                  /\ pc' = "returned"
             ELSE IF has_next_attempt(retry, call.max_retries)
             THEN /\ ret' = ret
                  /\ pc' = "sleep"
             ELSE /\ ret' = <<"raise", response>>
                  /\ pc' = "raised"
    /\ UNCHANGED <<book, call, fs, retry>>
    /\ UNCHANGED <<chapters, md_files, summary_files, file_index, emitted>>

\* time.sleep(wait_time), and the loop goes on.
SleepBeforeRetry ==
    /\ pc = "sleep"
    /\ effects' = Append(effects, <<"sleep", wait_time(retry)>>)
    /\ retry' = retry + 1
    /\ pc' = "loop"
    /\ UNCHANGED <<book, call, ret, fs>>
    /\ UNCHANGED <<chapters, md_files, summary_files, file_index, emitted>>

\* range(max_retries) is exhausted: the function ends without a return
\* statement.
LoopExhausted ==
    /\ pc = "loop"
    /\ retry >= call.max_retries
    /\ ret' = None
    /\ pc' = "returned"
    /\ UNCHANGED <<book, call, fs>>
    /\ UNCHANGED worker

NextRetry == PostRequest \/ SleepBeforeRetry \/ LoopExhausted

\* requests.post has a timeout and time.sleep ends: a step that can be
\* taken is taken.
SpecRetry == InitRetry /\ [][NextRetry]_vars /\ WF_vars(NextRetry)

IsPost(e) == e[1] = "post"
NumPosts == Cardinality({j \in 1..Len(effects) : IsPost(effects[j])})
FailedPost(e) == IsPost(e) /\ ~Succeeds(e[3])

\* The attempts and waits so far are those of a bounded retry with
\* exponential backoff.
RetrySafety ==
    call.max_retries >= 1 =>
        /\ NumPosts <= call.max_retries
        /\ \A j \in 1..Len(effects) :
              IF j % 2 = 1
              THEN IsPost(effects[j])
              ELSE effects[j] = <<"sleep", 2 ^ ((j \div 2) - 1)>>
        /\ \A j \in 1..(Len(effects) - 1) : IsPost(effects[j]) => FailedPost(effects[j])
        /\ pc = "returned" =>
              /\ Len(effects) >= 1
              /\ IsPost(effects[Len(effects)])
              /\ Succeeds(effects[Len(effects)][3])
              /\ ret = Strip(effects[Len(effects)][3][2])
        /\ pc = "raised" <=>
              /\ NumPosts = call.max_retries
              /\ FailedPost(effects[Len(effects)])

RetryEnded == pc \in {"returned", "raised"}

\* C11: generate_summary with max_retries = n >= 1 makes at most n requests;
\* it returns the stripped content at the first successful request, every
\* request before it having failed and none following it; after the failed
\* attempt number k (from 0) that is not the last it waits 2^k seconds, and
\* it does not wait after the last; it raises exactly when n requests were
\* made and all failed; and the call eventually ends.
C11_SummarizationRetry == []RetrySafety /\ <>RetryEnded

\* Three attempts allowed, two failed and were waited after for 1 s and 2 s,
\* the third succeeded and its content was returned.
C11_Witness ==
    /\ call.op = "generate_summary"
    /\ call.max_retries = 3
    /\ pc = "returned"
    /\ Len(effects) = 5
    /\ effects[2] = <<"sleep", 1>>
    /\ effects[4] = <<"sleep", 2>>
    /\ ret = <<"x">>

====
